---- MODULE Spec2Model ----
(***************************************************************************)
(* Block-oriented concurrent write engine of OpenDAL:                      *)
(*   core/src/raw/oio/write/block_write.rs  (BlockWrite, BlockWriter)      *)
(*                                                                         *)
(* One write session of a BlockWriter is modelled: the caller issues       *)
(* write / close / abort calls one at a time (they take &mut self), the    *)
(* writer suspends at `futures.next().await`, `write_once(..).await` and   *)
(* `complete_block(..).await`, and while it is suspended in next() the     *)
(* task pool polls the queued WriteBlockFutures, which call the backend's  *)
(* write_block and finish in any order, each either Ok or Err.             *)
(*                                                                         *)
(* The task pool (ConcurrentFutures) is not part of the sources at hand;   *)
(* its five operations are modelled from section 4.1 of the specification. *)
(* The backend is the TestWrite backend of the unit test (length, bytes,   *)
(* content), extended with failures of write_once and complete_block.      *)
(* Uuid::new_v4() is modelled as a fresh counter value.  A session ends    *)
(* when close has returned Ok.  Variables marked `history` record calls    *)
(* and results; no guard of the writer reads them.                         *)
(***************************************************************************)
EXTENDS Integers, Sequences, FiniteSets, TLC

\* ------------------------------------------------------------------ bounds
\* largest `concurrent` argument given to BlockWriter::new (0 is included)
MaxConcurrent == 2
\* number of write calls the caller gets accepted in one session
MaxWrites == 4
\* number of backend calls (write_block, write_once, complete_block) that fail
MaxFail == 2
\* number of abort calls between two write or close calls
MaxAbort == 1

\* the data a caller writes: the k-th accepted write passes the k-th buffer of
\* one of two streams of distinct buffers, of sizes 1,2,1,2.. or 2,1,2,1..
Stream(first) ==
    [k \in 1..MaxWrites |-> IF k % 2 = first THEN <<k>> ELSE <<k, k>>]

Inputs == {Stream(0), Stream(1)}

\* ----------------------------------------------------------------- helpers
Max(a, b) == IF a >= b THEN a ELSE b

RECURSIVE Flatten(_)
Flatten(ss) == IF ss = <<>> THEN <<>> ELSE Head(ss) \o Flatten(Tail(ss))

RECURSIVE SumLen(_)
SumLen(ss) == IF ss = <<>> THEN 0 ELSE Len(Head(ss)) + SumLen(Tail(ss))

Remove(s, i) == SubSeq(s, 1, i - 1) \o SubSeq(s, i + 1, Len(s))

Done(t) == t.st \in {"ok", "err"}

\* ------------------------------------------------------------------- state
VARIABLES
    configured,     \* the `concurrent` argument given to BlockWriter::new
    concurrent,     \* limit of the task pool (ConcurrentFutures::new argument)
    input,          \* the buffers the caller writes, in order
    block_ids,      \* BlockWriter.block_ids: the Committed Block List
    cache,          \* BlockWriter.cache: <<>> is None, <<chunk>> is Some(chunk)
    futures,        \* BlockWriter.futures: the pool's queue of tasks
    nextId,         \* the next value Uuid::new_v4() returns
    pc,             \* where the caller / the suspended call is
    arg,            \* the bytes of the write call that is suspended
    length,         \* TestWrite.length
    bytes,          \* TestWrite.bytes: block id -> body
    content,        \* TestWrite.content: <<>> is None, <<c>> is Some(c)
    wbCalls,        \* history: the (id, size, body) of the write_block calls issued
    uploaded,       \* history: write_block calls that returned Ok
    onceCalls,      \* history: write_once calls issued
    completeCalls,  \* history: complete_block calls issued
    abortCalls,     \* history: abort_block calls issued since the last write or close call
    yielded,        \* history: results returned by futures.next()
    accepted,       \* history: bytes of the write calls that returned Ok
    writeCalls,     \* history: number of write calls made
    closeCalls,     \* history: number of close calls made
    fails,          \* number of backend calls that failed so far
    snap,           \* history: the chunk sequence when the current call began
    pre,            \* history: the call in progress or made last, and the writer when it began
    ret,            \* history: result of the last call: "none", "ok", "err"
    val             \* history: what that result carried: Ok(size) of write, the error of Err

vars == <<configured, concurrent, input, block_ids, cache, futures, nextId, pc, arg,
          length, bytes, content, wbCalls, uploaded, onceCalls, completeCalls,
          abortCalls, yielded, accepted, writeCalls, closeCalls, fails, snap, pre,
          ret, val>>

writerVars == <<block_ids, cache, futures, nextId>>
backendVars == <<length, bytes, content>>

\* --------------------------------------------------- the task pool (4.1)
has_remaining(f, c) == Len(f) < c

is_empty(f) == Len(f) = 0

push_back(f, t) == Append(f, t)

push_front(f, t) == <<t>> \o f

\* position of the task whose result next() returns now; 0 while next() is
\* pending (the pool is not empty and the head has no result yet)
next_pos_any(f) ==
    IF \E i \in 1..Len(f) : Done(f[i])
    THEN CHOOSE i \in 1..Len(f) : Done(f[i]) /\ \A j \in 1..(i - 1) : ~Done(f[j])
    ELSE 0

next_pos(f) == IF f # <<>> /\ Done(Head(f)) THEN 1 ELSE 0

\* next() returns None
next_none(f) == f = <<>>

\* ------------------------------------------------------------ BlockWriter
\* variant of BlockWriter_new: the argument is used as it is
BlockWriter_new_raw(c) == c

\* BlockWriter::new: ConcurrentFutures::new(1.max(concurrent))
BlockWriter_new(c) == Max(1, c)

\* WriteBlockFuture::new: a future that has not been polled yet; src is the
\* index of the accepted write the bytes came from (history only); err is the
\* error write_block returned, 0 while there is none
WriteBlockFuture_new(id, bs, src) ==
    [id |-> id, bytes |-> bs, src |-> src, st |-> "queued", err |-> 0]

\* fill_cache: self.cache = Some(bs)
fill_cache(bs, src) == <<[bytes |-> bs, src |-> src]>>

\* fill_cache: assert!(self.cache.is_none()), on the cache it finds
fill_cache_assert(ch) == ch = <<>>

\* fill_cache: the size it returns
fill_cache_size(bs) == Len(bs)

\* variant of cache_take: the cache is cloned and stays filled
cache_take_clone(ch) == ch

\* self.cache.take(): what is left in the cache
cache_take(ch) == <<>>

\* variant of write_has_room: only an empty pool counts as room
write_has_room_empty(f, c) == is_empty(f)

\* write, the test at the top of the loop
write_has_room(f, c) == has_remaining(f, c)

\* variant of write_accept: the arriving bytes are merged into the cached chunk
write_accept_merge(f, ch, nid, bs, src) ==
    IF ch = <<>>
    THEN [futures |-> f, cache |-> fill_cache(bs, src), nextId |-> nid,
          asserted |-> TRUE, size |-> Len(bs)]
    ELSE [futures |-> f, cache |-> fill_cache(ch[1].bytes \o bs, src), nextId |-> nid,
          asserted |-> TRUE, size |-> Len(bs)]

\* variant of write_accept: every block gets the same identifier
write_accept_fixedid(f, ch, nid, bs, src) ==
    IF ch = <<>>
    THEN [futures |-> f, cache |-> fill_cache(bs, src), nextId |-> nid,
          asserted |-> TRUE, size |-> Len(bs)]
    ELSE [futures |-> push_back(f, WriteBlockFuture_new(1, ch[1].bytes, ch[1].src)),
          cache |-> fill_cache(bs, src), nextId |-> nid + 1,
          asserted |-> TRUE, size |-> Len(bs)]

\* write, has_remaining branch: the state the call leaves behind, whether the
\* assertion of fill_cache held, and the size returned
write_accept(f, ch, nid, bs, src) ==
    IF ch = <<>>
    THEN [futures |-> f,
          cache |-> fill_cache(bs, src),
          nextId |-> nid,
          asserted |-> fill_cache_assert(ch),
          size |-> fill_cache_size(bs)]
    ELSE [futures |-> push_back(f, WriteBlockFuture_new(nid, ch[1].bytes, ch[1].src)),
          cache |-> fill_cache(bs, src),
          nextId |-> nid + 1,
          asserted |-> fill_cache_assert(cache_take(ch)),
          size |-> fill_cache_size(bs)]

\* variant of write_requeue: the retry is submitted under a new identifier
write_requeue_newid(f, t) ==
    push_front(f, WriteBlockFuture_new(t.id + MaxWrites + 1, t.bytes, t.src))

\* variant of write_requeue: the failed block goes to the back of the queue
write_requeue_back(f, t) == push_back(f, WriteBlockFuture_new(t.id, t.bytes, t.src))

\* variant of write_requeue: the upload of the failed block is started again at once
write_requeue_retry(f, t) ==
    push_front(f, [WriteBlockFuture_new(t.id, t.bytes, t.src) EXCEPT !.st = "running"])

\* variant of write_requeue: the failed block is dropped
write_requeue_drop(f, t) == f

\* write, Err branch: the failed block goes back to the front
write_requeue(f, t) == push_front(f, WriteBlockFuture_new(t.id, t.bytes, t.src))

\* variant of close_requeue: the failed block goes to the back of the queue
close_requeue_back(f, t) == push_back(f, WriteBlockFuture_new(t.id, t.bytes, t.src))

\* variant of close_requeue: the failed block is dropped
close_requeue_drop(f, t) == f

\* close, Err branch
close_requeue(f, t) == push_front(f, WriteBlockFuture_new(t.id, t.bytes, t.src))

\* variant of close_fast: only the pool is looked at
close_fast_pool(f, ids) == is_empty(f)

\* close, test of the fast path
close_fast(f, ids) == is_empty(f) /\ ids = <<>>

\* variant of close_once_arg: the cached chunk is forgotten
close_once_arg_empty(ch) == [size |-> 0, body |-> <<>>]

\* close, fast path: the (size, body) handed to write_once
close_once_arg(ch) ==
    IF ch = <<>> THEN [size |-> 0, body |-> <<>>]
    ELSE [size |-> Len(ch[1].bytes), body |-> ch[1].bytes]

\* variant of close_drain: the cache is drained without asking has_remaining
close_drain_nocheck(f, c, ch, nid) ==
    IF ch # <<>>
    THEN [futures |-> push_back(f, WriteBlockFuture_new(nid, ch[1].bytes, ch[1].src)),
          cache |-> <<>>,
          nextId |-> nid + 1]
    ELSE [futures |-> f, cache |-> ch, nextId |-> nid]

\* variant of close_drain: the cache is cloned, not taken
close_drain_clone(f, c, ch, nid) ==
    IF has_remaining(f, c) /\ ch # <<>>
    THEN [futures |-> push_back(f, WriteBlockFuture_new(nid, ch[1].bytes, ch[1].src)),
          cache |-> ch,
          nextId |-> nid + 1]
    ELSE [futures |-> f, cache |-> ch, nextId |-> nid]

\* close, top of the loop: the cached chunk becomes the last block
close_drain(f, c, ch, nid) ==
    IF has_remaining(f, c) /\ ch # <<>>
    THEN [futures |-> push_back(f, WriteBlockFuture_new(nid, ch[1].bytes, ch[1].src)),
          cache |-> <<>>,
          nextId |-> nid + 1]
    ELSE [futures |-> f, cache |-> ch, nextId |-> nid]

\* variant of abort_arg: the blocks still in the pool are listed too
abort_arg_pool(ids, f) == ids \o [i \in 1..Len(f) |-> f[i].id]

\* abort: the list handed to abort_block
abort_arg(ids, f) == ids

\* ---------------------------------------------------------------- backend
BodyOf(id) == IF id \in DOMAIN bytes THEN bytes[id] ELSE <<>>

\* TestWrite::complete_block: the content built from the list of ids
complete_content(ids) == Flatten([i \in 1..Len(ids) |-> BodyOf(ids[i])])

\* the chunks of the session in order: committed, then pool, then cache
Logical ==
    [i \in 1..Len(block_ids) |-> BodyOf(block_ids[i])]
    \o [i \in 1..Len(futures) |-> futures[i].bytes]
    \o [i \in 1..Len(cache) |-> cache[i].bytes]

\* the writer as a call finds it
Before(call) ==
    [call |-> call,
     cache |-> cache,
     nextId |-> nextId,
     pool |-> [i \in 1..Len(futures) |-> futures[i].id],
     room |-> has_remaining(futures, concurrent),
     accepted |-> Len(accepted)]

\* -------------------------------------------------------------------- Init
Init ==
    /\ configured \in 0..MaxConcurrent
    /\ concurrent = BlockWriter_new(configured)
    /\ input \in Inputs
    /\ block_ids = <<>>
    /\ cache = <<>>
    /\ futures = <<>>
    /\ nextId = 1
    /\ pc = "idle"
    /\ arg = <<>>
    /\ length = 0
    /\ bytes = <<>>
    /\ content = <<>>
    /\ wbCalls = {}
    /\ uploaded = <<>>
    /\ onceCalls = <<>>
    /\ completeCalls = <<>>
    /\ abortCalls = <<>>
    /\ yielded = <<>>
    /\ accepted = <<>>
    /\ writeCalls = 0
    /\ closeCalls = 0
    /\ fails = 0
    /\ snap = <<>>
    /\ pre = [call |-> "none", cache |-> <<>>, nextId |-> 1, pool |-> <<>>,
              room |-> TRUE, accepted |-> 0]
    /\ ret = "none"
    /\ val = 0

\* ----------------------------------------------------------------- actions
\* the has_remaining branch of write runs and the call returns Ok(size)
WriteReturnOk(f, bs) ==
    LET r == write_accept(f, cache, nextId, bs, Len(accepted) + 1) IN
    /\ futures' = r.futures
    /\ cache' = r.cache
    /\ nextId' = r.nextId
    /\ accepted' = Append(accepted, bs)
    /\ pc' = IF r.asserted THEN "idle" ELSE "panic"
    /\ arg' = <<>>
    /\ ret' = "ok"
    /\ val' = r.size

\* write(bs) is called with the next buffer of the input (the same buffer
\* again after a write that returned Err); it returns at once or suspends in
\* next()
WriteCall ==
    /\ pc = "idle"
    /\ Len(accepted) < MaxWrites
    /\ writeCalls' = writeCalls + 1
    /\ snap' = Logical
    /\ pre' = Before("write")
    /\ abortCalls' = <<>>
    /\ IF write_has_room(futures, concurrent)
       THEN WriteReturnOk(futures, input[Len(accepted) + 1])
       ELSE /\ pc' = "write"
            /\ arg' = input[Len(accepted) + 1]
            /\ ret' = "none"
            /\ val' = 0
            /\ UNCHANGED <<cache, futures, nextId, accepted>>
    /\ UNCHANGED <<configured, concurrent, input, block_ids, backendVars, wbCalls, uploaded,
                   onceCalls, completeCalls, yielded, closeCalls, fails>>

\* next() returns inside write: Ok commits the id and the loop runs again,
\* Err re-queues the block and returns the error
WriteResume ==
    /\ pc = "write"
    /\ next_pos(futures) # 0
    /\ LET i == next_pos(futures)
           t == futures[i]
           rest == Remove(futures, i)
       IN  /\ yielded' = Append(yielded, [id |-> t.id, src |-> t.src, ok |-> t.st = "ok"])
           /\ IF t.st = "ok"
              THEN /\ block_ids' = Append(block_ids, t.id)
                   /\ IF write_has_room(rest, concurrent)
                      THEN WriteReturnOk(rest, arg)
                      ELSE /\ futures' = rest
                           /\ UNCHANGED <<cache, nextId, accepted, pc, arg, ret, val>>
              ELSE /\ futures' = write_requeue(rest, t)
                   /\ pc' = "idle"
                   /\ arg' = <<>>
                   /\ ret' = "err"
                   /\ val' = t.err
                   /\ UNCHANGED <<block_ids, cache, nextId, accepted>>
    /\ UNCHANGED <<configured, concurrent, input, backendVars, wbCalls, uploaded, onceCalls,
                   completeCalls, abortCalls, writeCalls, closeCalls, fails, snap,
                   pre>>

\* one pass of the loop of close up to its next suspension: drain the cache,
\* then either wait in next() or, with an empty pool, call complete_block
CloseLoop(f, ids) ==
    LET r == close_drain(f, concurrent, cache, nextId) IN
    /\ futures' = r.futures
    /\ cache' = r.cache
    /\ nextId' = r.nextId
    /\ IF next_none(r.futures)
       THEN /\ completeCalls' = Append(completeCalls, ids)
            /\ pc' = "complete"
       ELSE /\ pc' = "close"
            /\ UNCHANGED completeCalls

\* close() is called
CloseCall ==
    /\ pc = "idle"
    /\ closeCalls' = closeCalls + 1
    /\ snap' = Logical
    /\ pre' = Before("close")
    /\ abortCalls' = <<>>
    /\ ret' = "none"
    /\ val' = 0
    /\ IF close_fast(futures, block_ids)
       THEN /\ onceCalls' = Append(onceCalls, close_once_arg(cache))
            /\ pc' = "once"
            /\ UNCHANGED <<futures, cache, nextId, completeCalls>>
       ELSE /\ CloseLoop(futures, block_ids)
            /\ UNCHANGED onceCalls
    /\ UNCHANGED <<configured, concurrent, input, block_ids, arg, backendVars, wbCalls,
                   uploaded, yielded, accepted, writeCalls, fails>>

\* next() returns inside close
CloseResume ==
    /\ pc = "close"
    /\ next_pos(futures) # 0
    /\ LET i == next_pos(futures)
           t == futures[i]
           rest == Remove(futures, i)
       IN  /\ yielded' = Append(yielded, [id |-> t.id, src |-> t.src, ok |-> t.st = "ok"])
           /\ IF t.st = "ok"
              THEN /\ block_ids' = Append(block_ids, t.id)
                   /\ CloseLoop(rest, Append(block_ids, t.id))
                   /\ UNCHANGED <<ret, val>>
              ELSE /\ futures' = close_requeue(rest, t)
                   /\ pc' = "idle"
                   /\ ret' = "err"
                   /\ val' = t.err
                   /\ UNCHANGED <<block_ids, cache, nextId, completeCalls>>
    /\ UNCHANGED <<configured, concurrent, input, arg, backendVars, wbCalls, uploaded, onceCalls,
                   abortCalls, accepted, writeCalls, closeCalls, fails, snap, pre>>

\* write_once returns: Ok clears the cache, Err is returned by `?`
WriteOnceReturn(ok) ==
    /\ pc = "once"
    /\ IF ok
       THEN /\ cache' = <<>>
            /\ pc' = "done"
            /\ ret' = "ok"
            /\ val' = 0
            /\ UNCHANGED fails
       ELSE /\ fails < MaxFail
            /\ fails' = fails + 1
            /\ pc' = "idle"
            /\ ret' = "err"
            /\ val' = fails + 1
            /\ UNCHANGED cache
    /\ UNCHANGED <<configured, concurrent, input, block_ids, futures, nextId, arg, backendVars,
                   wbCalls, uploaded, onceCalls, completeCalls, abortCalls,
                   yielded, accepted, writeCalls, closeCalls, snap, pre>>

\* complete_block returns; on Ok the backend has built the content
CompleteReturn(ok) ==
    /\ pc = "complete"
    /\ IF ok
       THEN /\ content' = <<complete_content(completeCalls[Len(completeCalls)])>>
            /\ pc' = "done"
            /\ ret' = "ok"
            /\ val' = 0
            /\ UNCHANGED fails
       ELSE /\ fails < MaxFail
            /\ fails' = fails + 1
            /\ pc' = "idle"
            /\ ret' = "err"
            /\ val' = fails + 1
            /\ UNCHANGED content
    /\ UNCHANGED <<configured, concurrent, input, writerVars, arg, length, bytes, wbCalls, uploaded,
                   onceCalls, completeCalls, abortCalls, yielded, accepted,
                   writeCalls, closeCalls, snap, pre>>

\* abort() is called, between two calls or after the session has closed, and
\* abort_block returns
Abort ==
    /\ pc \in {"idle", "done"}
    /\ Len(abortCalls) < MaxAbort
    /\ abortCalls' = Append(abortCalls, abort_arg(block_ids, futures))
    /\ UNCHANGED <<configured, concurrent, input, writerVars, pc, arg, backendVars, wbCalls,
                   uploaded, onceCalls, completeCalls, yielded, accepted,
                   writeCalls, closeCalls, fails, snap, pre, ret, val>>

\* the pool polls a queued future for the first time: write_block is called
StartBlock(i) ==
    /\ pc \in {"write", "close"}
    /\ i \in 1..Len(futures)
    /\ futures[i].st = "queued"
    /\ futures' = [futures EXCEPT ![i].st = "running"]
    /\ wbCalls' = wbCalls \cup {[id |-> futures[i].id,
                                size |-> Len(futures[i].bytes),
                                body |-> futures[i].bytes,
                                src |-> futures[i].src]}
    /\ UNCHANGED <<configured, concurrent, input, block_ids, cache, nextId, pc, arg, backendVars,
                   uploaded, onceCalls, completeCalls, abortCalls, yielded,
                   accepted, writeCalls, closeCalls, fails, snap, pre, ret, val>>

\* write_block returns Ok: the backend has stored the block
FinishBlockOk(i) ==
    /\ pc \in {"write", "close"}
    /\ i \in 1..Len(futures)
    /\ futures[i].st = "running"
    /\ futures' = [futures EXCEPT ![i].st = "ok"]
    /\ length' = length + Len(futures[i].bytes)
    /\ bytes' = (futures[i].id :> futures[i].bytes) @@ bytes
    /\ uploaded' = Append(uploaded, [id |-> futures[i].id, src |-> futures[i].src])
    /\ UNCHANGED <<configured, concurrent, input, block_ids, cache, nextId, pc, arg, content,
                   wbCalls, onceCalls, completeCalls, abortCalls, yielded,
                   accepted, writeCalls, closeCalls, fails, snap, pre, ret, val>>

\* write_block returns Err
FinishBlockErr(i) ==
    /\ pc \in {"write", "close"}
    /\ i \in 1..Len(futures)
    /\ futures[i].st = "running"
    /\ fails < MaxFail
    /\ fails' = fails + 1
    /\ futures' = [futures EXCEPT ![i].st = "err", ![i].err = fails + 1]
    /\ UNCHANGED <<configured, concurrent, input, block_ids, cache, nextId, pc, arg, backendVars,
                   wbCalls, uploaded, onceCalls, completeCalls, abortCalls,
                   yielded, accepted, writeCalls, closeCalls, snap, pre, ret, val>>

Next ==
    \/ WriteCall
    \/ WriteResume
    \/ CloseCall
    \/ CloseResume
    \/ \E ok \in BOOLEAN : WriteOnceReturn(ok)
    \/ \E ok \in BOOLEAN : CompleteReturn(ok)
    \/ Abort
    \/ \E i \in 1..MaxConcurrent : StartBlock(i)
    \/ \E i \in 1..MaxConcurrent : FinishBlockOk(i)
    \/ \E i \in 1..MaxConcurrent : FinishBlockErr(i)

Spec == Init /\ [][Next]_vars

\* The caller of the unit test and a backend that answers: the caller calls
\* close again whenever it is idle (it retries every failed call), the pool
\* polls its futures while the writer waits in next(), and a backend call
\* that is retried eventually succeeds (at most MaxFail calls fail).
Fairness ==
    /\ WF_vars(CloseCall)
    /\ WF_vars(WriteResume)
    /\ WF_vars(CloseResume)
    /\ WF_vars(\E i \in 1..MaxConcurrent : StartBlock(i))
    /\ WF_vars(\E i \in 1..MaxConcurrent : FinishBlockOk(i))
    /\ WF_vars(WriteOnceReturn(TRUE))
    /\ WF_vars(CompleteReturn(TRUE))

LiveSpec == Init /\ [][Next]_vars /\ Fairness

TypeOK ==
    /\ configured \in 0..MaxConcurrent
    /\ concurrent \in 1..Max(1, MaxConcurrent)
    /\ Len(cache) <= 1
    /\ pc \in {"idle", "write", "close", "once", "complete", "done", "panic"}
    /\ ret \in {"none", "ok", "err"}
    /\ val \in Nat
    /\ pre.call \in {"none", "write", "close"}
    /\ \A i \in 1..Len(futures) : futures[i].st \in {"queued", "running", "ok", "err"}
    /\ fails \in 0..MaxFail

\* ------------------------------------------------------------------ claims
Last(s) == s[Len(s)]

\* the results next() returned Ok, in the order it returned them
YieldedOk == SelectSeq(yielded, LAMBDA y : y.ok)

\* some block upload failed and its block was re-queued
SomeRetry == \E k \in 1..Len(yielded) : ~yielded[k].ok

\* some upload finished before the upload of an earlier written block
OutOfOrderUpload ==
    \E i, j \in 1..Len(uploaded) : i < j /\ uploaded[i].src > uploaded[j].src

\* C1: order preservation. With a concurrency limit above 1, when close has
\* succeeded through complete_block, the id list it passed names one block per
\* accepted write, in write order, the body of the i-th block is the bytes of
\* the i-th accepted write, and the content the backend built is the
\* concatenation of all accepted bytes, whatever failed and in whatever order
\* the uploads finished.
C1_OrderPreserved ==
    (concurrent > 1 /\ pc = "done" /\ completeCalls # <<>>) =>
        LET ids == Last(completeCalls) IN
        /\ Len(ids) = Len(accepted)
        /\ \A i \in 1..Len(ids) :
              /\ BodyOf(ids[i]) = accepted[i]
              /\ \E k \in 1..Len(uploaded) :
                    uploaded[k].id = ids[i] /\ uploaded[k].src = i
        /\ content = <<Flatten(accepted)>>

C1_Witness ==
    /\ concurrent > 1
    /\ pc = "done"
    /\ completeCalls # <<>>
    /\ Len(accepted) = MaxWrites
    /\ accepted[1] # accepted[2]
    /\ SomeRetry
    /\ OutOfOrderUpload

\* C2: single-shot fast path. In a session with at most one write call, no
\* write_block and no complete_block call is ever issued, every close call
\* issues exactly one write_once call (so one close means exactly one call),
\* and the call carries the bytes of the one write, or size 0 and an empty
\* body when nothing was written.
C2_SingleShot ==
    writeCalls <= 1 =>
        /\ wbCalls = {}
        /\ completeCalls = <<>>
        /\ Len(onceCalls) = closeCalls
        /\ pc \in {"once", "done"} =>
              Last(onceCalls) =
                 IF accepted = <<>> THEN [size |-> 0, body |-> <<>>]
                 ELSE [size |-> Len(accepted[1]), body |-> accepted[1]]

C2_Witness ==
    /\ pc = "done"
    /\ writeCalls = 1
    /\ closeCalls = 1
    /\ onceCalls = <<[size |-> 2, body |-> <<1, 1>>]>>
    /\ wbCalls = {}

\* C3: capacity bound. The pool never holds more block operations than the
\* concurrency limit, queued or in flight; the pool grows only in a step that
\* found has_remaining true, and a step in which next() yields a failure puts
\* the failed block back in the place next() took it from.
C3_Bound ==
    /\ Len(futures) <= concurrent
    /\ Cardinality({i \in 1..Len(futures) : futures[i].st = "running"}) <= concurrent

C3_PushStep ==
    /\ Len(futures') > Len(futures) =>
          has_remaining(futures, concurrent) /\ Len(futures') = Len(futures) + 1
    /\ (Len(yielded') > Len(yielded) /\ ~Last(yielded').ok) =>
          /\ Len(futures') = Len(futures)
          /\ Head(futures').id = Last(yielded').id
          /\ Tail(futures') = Tail(futures)

C3_CapacityBound == [](C3_Bound) /\ [][C3_PushStep]_vars

C3_Witness ==
    /\ concurrent > 1
    /\ Len(futures) = concurrent
    /\ \A i \in 1..Len(futures) : futures[i].st = "running"
    /\ cache # <<>>
    /\ SomeRetry

\* C4: retry without duplication. All write_block calls issued for the chunk
\* of one write carry the same identifier and the bytes of that write, an
\* identifier is generated once per block and never for a retry, and no block
\* is committed twice.
C4_RetrySameBlock ==
    /\ \A c, d \in wbCalls :
          c.src = d.src => c.id = d.id /\ c.body = d.body
    /\ \A c \in wbCalls :
          /\ c.src \in 1..Len(accepted)
          /\ c.body = accepted[c.src]
          /\ c.size = Len(c.body)
    /\ nextId - 1 = Len(block_ids) + Len(futures)
    /\ \A i, j \in 1..Len(block_ids) : i # j => block_ids[i] # block_ids[j]
    /\ \A i, j \in 1..Len(YieldedOk) : i # j => YieldedOk[i].src # YieldedOk[j].src

C4_Witness ==
    /\ pc = "done"
    /\ \E k \in 1..Len(yielded) :
          /\ ~yielded[k].ok
          /\ yielded[k].id \in {block_ids[i] : i \in 1..Len(block_ids)}
          /\ \E c \in wbCalls : c.id = yielded[k].id

\* every accepted chunk has been committed by the close that succeeded
AllCommitted ==
    /\ futures = <<>>
    /\ cache = <<>>
    /\ IF completeCalls = <<>>
       THEN /\ Len(accepted) <= 1
            /\ onceCalls # <<>>
            /\ Last(onceCalls).body = Flatten(accepted)
       ELSE /\ Len(Last(completeCalls)) = Len(accepted)
            /\ Last(completeCalls) = block_ids
            /\ content = <<Flatten(accepted)>>

\* C5: no drop, liveness. When the caller re-issues every failed call and the
\* backend's calls eventually succeed, close eventually returns Ok, and when
\* it has, every chunk of an accepted write has been committed: the pool and
\* the cache are empty and the committed data is all accepted bytes.
C5_EventuallyCommitted == <>(pc = "done") /\ [](pc = "done" => AllCommitted)

C5_Witness ==
    /\ pc = "done"
    /\ ret = "ok"
    /\ fails = MaxFail
    /\ Len(accepted) = MaxWrites
    /\ \E k \in 1..Len(yielded) : ~yielded[k].ok
    /\ Len(completeCalls) = 1

\* C6: abort. Every abort issues exactly one abort_block call, its argument is
\* the Committed Block List as it is at that moment (empty, partial or full),
\* and the committed list, the cache and the pool are left as they were.
C6_AbortStep ==
    Len(abortCalls') > Len(abortCalls) =>
        /\ abortCalls' = Append(abortCalls, block_ids)
        /\ UNCHANGED <<block_ids, cache, futures>>

C6_Abort == [][C6_AbortStep]_vars

C6_Witness ==
    /\ pc = "idle"
    /\ ret = "err"
    /\ closeCalls > 0
    /\ writeCalls = Len(accepted)
    /\ abortCalls # <<>>
    /\ Last(abortCalls) = block_ids
    /\ block_ids # <<>>
    /\ futures # <<>>

\* C7: exactly-once upload. No block's upload succeeds twice, a block whose
\* upload has succeeded is never queued for write_block again, and when a
\* session with two or more accepted writes has closed, the backend has
\* received one successful upload per accepted write and a total length equal
\* to the sum of the sizes of the accepted writes.
C7_ExactlyOnce ==
    /\ \A i, j \in 1..Len(uploaded) :
          i # j => uploaded[i].id # uploaded[j].id /\ uploaded[i].src # uploaded[j].src
    /\ \A i \in 1..Len(futures) :
          futures[i].st \in {"queued", "running"} =>
             \A k \in 1..Len(uploaded) :
                uploaded[k].id # futures[i].id /\ uploaded[k].src # futures[i].src
    /\ (pc = "done" /\ Len(accepted) >= 2) =>
          /\ length = SumLen(accepted)
          /\ Len(uploaded) = Len(accepted)

C7_Witness ==
    /\ pc = "done"
    /\ Len(accepted) = MaxWrites
    /\ length = SumLen(accepted)
    /\ Len(uploaded) = MaxWrites
    /\ fails = MaxFail
    /\ SomeRetry

\* C8: FIFO yield of the task pool. The results next() returns are in
\* submission order (a re-queued block counts with its original place), also
\* when a later block finished first; each result returned is that of the head
\* of the queue, so finished results behind an unfinished head are held; and
\* next() returns none (close goes on to complete_block) only with an empty pool.
C8_InOrder ==
    \A i, j \in 1..Len(yielded) : i < j => yielded[i].src <= yielded[j].src

C8_YieldStep ==
    /\ Len(yielded') > Len(yielded) =>
          /\ futures # <<>>
          /\ Done(Head(futures))
          /\ Last(yielded').id = Head(futures).id
          /\ Last(yielded').ok = (Head(futures).st = "ok")
    /\ Len(completeCalls') > Len(completeCalls) => futures' = <<>>

C8_FifoYield == [](C8_InOrder) /\ [][C8_YieldStep]_vars

C8_Witness ==
    /\ OutOfOrderUpload
    /\ Len(YieldedOk) >= 2
    /\ pc \in {"write", "close"}
    /\ Len(futures) >= 2
    /\ ~Done(futures[1])
    /\ Done(futures[2])

\* C9: an error is not a persistent state. When write or close has returned an
\* error, the chunks of the session in order (committed, then pool, then cache)
\* are what they were when the call began; and no step ever removes or
\* reorders an entry of the committed list.
C9_SameOnError == ret = "err" => Logical = snap

C9_ForwardStep ==
    /\ Len(block_ids') >= Len(block_ids)
    /\ SubSeq(block_ids', 1, Len(block_ids)) = block_ids

C9_ErrorNotPersistent == [](C9_SameOnError) /\ [][C9_ForwardStep]_vars

C9_Witness ==
    /\ pc = "idle"
    /\ ret = "err"
    /\ concurrent > 1
    /\ closeCalls = 1
    /\ Len(snap) = MaxWrites
    /\ Logical = snap
    /\ Len(block_ids) = 2
    /\ Len(futures) = 2
    /\ cache = <<>>

\* C10: front re-queue ordering. The blocks are committed strictly in write
\* order, the k-th entry of the Committed Block List being the block of the
\* k-th accepted write, and the pool holds the blocks not yet committed in
\* write order, a re-queued block ahead of every block pushed after it.
C10_FrontRequeue ==
    /\ Len(YieldedOk) = Len(block_ids)
    /\ \A k \in 1..Len(block_ids) :
          YieldedOk[k].id = block_ids[k] /\ YieldedOk[k].src = k
    /\ \A i \in 1..Len(futures) : futures[i].src = Len(block_ids) + i

C10_Witness ==
    /\ pc = "idle"
    /\ ret = "ok"
    /\ Len(futures) = 2
    /\ cache # <<>>
    /\ yielded # <<>>
    /\ ~Last(yielded).ok
    /\ Last(yielded).id = futures[1].id

\* the identifiers of the blocks in the pool, front first
PoolIds == [i \in 1..Len(futures) |-> futures[i].id]

\* the number of chunks of the session that hold the bytes b
Occurrences(b) == Cardinality({i \in 1..Len(Logical) : Logical[i] = b})

\* C11: a write call that returned an error has not accepted its bytes: the
\* cache holds the chunk it held when the call began, no block identifier was
\* generated, the pool holds the blocks it held (none was pushed to its back)
\* and the count of accepted writes is the same; and when a write call has
\* returned Ok, after however many failed attempts, its bytes occur exactly
\* once among the chunks of the session and the session's data is the
\* concatenation of the accepted bytes.
C11_FailedWriteNotAccepted ==
    /\ (pc = "idle" /\ ret = "err" /\ pre.call = "write") =>
          /\ cache = pre.cache
          /\ nextId = pre.nextId
          /\ PoolIds = pre.pool
          /\ Len(accepted) = pre.accepted
    /\ (pc = "idle" /\ ret = "ok" /\ pre.call = "write") =>
          /\ Len(accepted) = pre.accepted + 1
          /\ Occurrences(Last(accepted)) = 1
          /\ Flatten(Logical) = Flatten(accepted)

C11_Witness ==
    /\ pc = "idle"
    /\ ret = "ok"
    /\ pre.call = "write"
    /\ Len(accepted) = MaxWrites
    /\ writeCalls = Len(accepted) + MaxFail
    /\ fails = MaxFail

\* C12: cache invariant and assertion validity. The cache never holds more
\* than one chunk, and no call of fill_cache finds the cache filled: the
\* assertion at its head never fails, whatever the sequence of write, close
\* and abort calls and whichever of them failed and were retried.
C12_CacheAssertion ==
    /\ Len(cache) <= 1
    /\ pc # "panic"

C12_Witness ==
    /\ pc = "idle"
    /\ ret = "ok"
    /\ pre.call = "write"
    /\ pre.cache # <<>>
    /\ cache # <<>>
    /\ cache # pre.cache
    /\ closeCalls >= 1
    /\ fails = MaxFail

\* C13: one-chunk lag. A step in which a write is accepted returns Ok with the
\* full length of the bytes passed and leaves exactly those bytes in the cache;
\* if the cache held a chunk, that chunk is the last block of the pool
\* afterwards, not yet started, under an identifier no block had before, and
\* otherwise no identifier is generated and no block is added. Chunks are
\* never split or merged: until the single-shot upload has taken the only
\* chunk, the chunks of the session (committed blocks, pool blocks, cached
\* chunk) are the accepted writes, one for one.
C13_AcceptStep ==
    Len(accepted') = Len(accepted) + 1 =>
        /\ ret' = "ok"
        /\ val' = Len(Last(accepted'))
        /\ Len(cache') = 1
        /\ cache'[1].bytes = Last(accepted')
        /\ IF cache # <<>>
           THEN /\ futures' # <<>>
                /\ Last(futures').bytes = cache[1].bytes
                /\ Last(futures').st = "queued"
                /\ Last(futures').id = nextId
                /\ \A i \in 1..Len(futures) : futures[i].id # nextId
                /\ \A i \in 1..Len(block_ids') : block_ids'[i] # nextId
                /\ Len(futures') <= Len(futures) + 1
                /\ nextId' = nextId + 1
           ELSE /\ nextId' = nextId
                /\ Len(futures') <= Len(futures)
                /\ \A i \in 1..Len(futures') :
                      \E j \in 1..Len(futures) : futures'[i].id = futures[j].id

C13_OneForOne ==
    (pc # "done" \/ completeCalls # <<>>) =>
        /\ Len(block_ids) + Len(futures) + Len(cache) = Len(accepted)
        /\ Logical = accepted

C13_OneChunkLag == [](C13_OneForOne) /\ [][C13_AcceptStep]_vars

C13_Witness ==
    /\ pc = "idle"
    /\ ret = "ok"
    /\ pre.call = "write"
    /\ pre.cache # <<>>
    /\ val = 2
    /\ Len(futures) = 2
    /\ Last(futures).id = pre.nextId
    /\ Last(futures).bytes = pre.cache[1].bytes
    /\ nextId = pre.nextId + 1
    /\ Len(cache[1].bytes) = 2

\* C14: no suspension while caching. A write call made while the pool has
\* spare capacity returns Ok in the step of the call, taking no result from
\* the pool and leaving the Committed Block List as it was; a write call waits
\* only when it was made with a full pool; and the Committed Block List
\* changes only in a write call made with a full pool or in a close call
\* waiting for pool results.
C14_CallStep ==
    (writeCalls' = writeCalls + 1 /\ has_remaining(futures, concurrent)) =>
        /\ pc' = "idle"
        /\ ret' = "ok"
        /\ Len(accepted') = Len(accepted) + 1
        /\ yielded' = yielded
        /\ block_ids' = block_ids

C14_CommitStep ==
    block_ids' # block_ids =>
        \/ pc = "write" /\ pre.call = "write" /\ ~pre.room
        \/ pc = "close" /\ pre.call = "close"

C14_WaitsOnlyWhenFull == pc = "write" => (pre.call = "write" /\ ~pre.room)

C14_NoSuspensionWhileCaching ==
    [](C14_WaitsOnlyWhenFull) /\ [][C14_CallStep /\ C14_CommitStep]_vars

C14_Witness ==
    /\ pc = "idle"
    /\ ret = "ok"
    /\ pre.call = "write"
    /\ pre.room
    /\ Len(pre.pool) = 1
    /\ PoolIds = pre.pool
    /\ concurrent = 2
    /\ Len(block_ids) = 2

\* C15: commit precondition. While a complete_block call is outstanding the
\* pool is empty, the cache is empty and the list passed is the Committed
\* Block List, holding one identifier per accepted write of the session, the
\* i-th naming the bytes of the i-th write; and a close call made right after
\* complete_block failed calls complete_block at once with the same list and
\* issues no write_block call.
C15_AtComplete ==
    pc = "complete" =>
        /\ futures = <<>>
        /\ cache = <<>>
        /\ completeCalls # <<>>
        /\ Last(completeCalls) = block_ids
        /\ Len(block_ids) = Len(accepted)
        /\ \A i \in 1..Len(block_ids) : BodyOf(block_ids[i]) = accepted[i]

\* the last call was a close that failed in complete_block
CompleteFailed ==
    /\ pc = "idle"
    /\ ret = "err"
    /\ pre.call = "close"
    /\ futures = <<>>
    /\ block_ids # <<>>

C15_RetryStep ==
    (CompleteFailed /\ closeCalls' = closeCalls + 1) =>
        /\ pc' = "complete"
        /\ Len(completeCalls') = Len(completeCalls) + 1
        /\ Last(completeCalls') = Last(completeCalls)
        /\ wbCalls' = wbCalls
        /\ onceCalls' = onceCalls

C15_CommitPrecondition == [](C15_AtComplete) /\ [][C15_RetryStep]_vars

C15_Witness ==
    /\ pc = "complete"
    /\ Len(completeCalls) = 2
    /\ completeCalls[1] = completeCalls[2]
    /\ Len(block_ids) = MaxWrites
    /\ closeCalls >= 2

\* the block whose failure the step takes out of the pool
FailedYield(t) ==
    /\ Len(yielded') = Len(yielded) + 1
    /\ ~Last(yielded').ok
    /\ t.id = Last(yielded').id
    /\ t.st = "err"

\* C16: no engine-driven retry. The step in which next() returns a failed
\* upload puts that block back at the front of the pool, not started, and ends
\* the write or close call with the error write_block gave, unchanged; and an
\* upload is started only while a write or close call is waiting in next(),
\* never by the step that queues or re-queues a block and never between calls.
C16_FailStep ==
    \A i \in 1..Len(futures) :
        FailedYield(futures[i]) =>
            /\ pc \in {"write", "close"}
            /\ pc' = "idle"
            /\ ret' = "err"
            /\ futures[i].err > 0
            /\ val' = futures[i].err
            /\ futures' # <<>>
            /\ Head(futures').id = futures[i].id
            /\ Head(futures').bytes = futures[i].bytes
            /\ Head(futures').st = "queued"

C16_StartStep ==
    \A j \in 1..Len(futures') :
        futures'[j].st = "running" =>
            \E i \in 1..Len(futures) :
                /\ futures[i].id = futures'[j].id
                /\ \/ futures[i].st = "running"
                   \/ futures[i].st = "queued" /\ pc \in {"write", "close"} /\ pc' = pc

C16_NoEngineRetry == [][C16_FailStep /\ C16_StartStep]_vars

C16_Witness ==
    /\ pc = "idle"
    /\ ret = "err"
    /\ pre.call = "close"
    /\ val = MaxFail
    /\ yielded # <<>>
    /\ ~Last(yielded).ok
    /\ futures # <<>>
    /\ Head(futures).id = Last(yielded).id
    /\ Head(futures).st = "queued"
    /\ \E k \in 1..Len(yielded) - 1 : ~yielded[k].ok /\ yielded[k].id = Last(yielded).id

\* the accepted writes whose chunks wait in the pool or in the cache
PendingSrcs ==
    [i \in 1..Len(futures) |-> futures[i].src] \o [i \in 1..Len(cache) |-> cache[i].src]

\* the last call was a close that failed in write_once
OnceFailed ==
    /\ pc = "idle"
    /\ ret = "err"
    /\ pre.call = "close"
    /\ futures = <<>>
    /\ block_ids = <<>>

\* C17: close retry keeps the pending chunk exactly once. On the fast path
\* write_once is handed the cached chunk, a failed write_once leaves the cache
\* as it was, and a close made right after sends the same bytes again. On the
\* general path the step that empties the cache puts that chunk at the back of
\* the pool as one new block, and however many close calls fail and are
\* retried, no accepted write is held by two pending chunks or by a pending
\* chunk and a committed block, the cached chunk has not been uploaded, and
\* the blocks made are those in the pool or committed.
C17_Pending ==
    /\ pc = "once" => (onceCalls # <<>> /\ Last(onceCalls) = close_once_arg(cache))
    /\ \A i, j \in 1..Len(PendingSrcs) : i # j => PendingSrcs[i] # PendingSrcs[j]
    /\ \A i \in 1..Len(PendingSrcs) :
          \A k \in 1..Len(YieldedOk) : YieldedOk[k].src # PendingSrcs[i]
    /\ \A i \in 1..Len(cache) :
          \A k \in 1..Len(uploaded) : uploaded[k].src # cache[i].src
    /\ nextId - 1 = Len(block_ids) + Len(futures)

C17_OnceStep ==
    /\ (pc = "once" /\ ret' = "err") => cache' = cache
    /\ (pc = "once" /\ cache' # cache) => (ret' = "ok" /\ cache' = <<>>)
    /\ (OnceFailed /\ closeCalls' = closeCalls + 1) =>
          /\ Len(onceCalls') = Len(onceCalls) + 1
          /\ Last(onceCalls') = Last(onceCalls)

C17_DrainStep ==
    (pre'.call = "close" /\ pc # "once" /\ cache # <<>> /\ cache' = <<>>) =>
        /\ futures' # <<>>
        /\ Last(futures').bytes = cache[1].bytes
        /\ Last(futures').src = cache[1].src
        /\ Last(futures').id = nextId
        /\ nextId' = nextId + 1

C17_CloseRetry == [](C17_Pending) /\ [][C17_OnceStep /\ C17_DrainStep]_vars

C17_Witness ==
    /\ pc = "close"
    /\ closeCalls = MaxFail + 1
    /\ fails = MaxFail
    /\ onceCalls = <<>>
    /\ cache = <<>>
    /\ Len(accepted) >= 2
    /\ nextId - 1 = Len(accepted)
    /\ Last(futures).src = Len(accepted)

\* the blocks submitted so far are in the pool or in the Committed Block List,
\* each in one place and there once
EveryBlockInOnePlace ==
    LET held == PoolIds \o block_ids IN
    /\ \A i \in 1..Len(held) : held[i] \in 1..(nextId - 1)
    /\ \A id \in 1..(nextId - 1) :
          Cardinality({i \in 1..Len(held) : held[i] = id}) = 1

\* C18 as stated: every block submitted is in exactly one of the pool or the
\* Committed Block List, the fast-path test of close is true exactly when no
\* write_block call was ever issued in the session, and with two or more
\* accepted writes no write_once call is outstanding.
C18_AsStated ==
    /\ EveryBlockInOnePlace
    /\ pc = "idle" => (close_fast(futures, block_ids) <=> wbCalls = {})
    /\ Len(accepted) >= 2 => pc # "once"

\* C18, amended: every block submitted is in exactly one of the pool or the
\* Committed Block List in every state, a failed block being put back in the
\* step that takes its failure out; the fast-path test of close is true
\* exactly when no block was ever submitted to the pool, and then no
\* write_block call was ever issued (a submitted block may still wait for its
\* first write_block call); and once two writes are accepted no write_once
\* call is issued.
C18_State ==
    /\ EveryBlockInOnePlace
    /\ close_fast(futures, block_ids) <=> nextId = 1
    /\ close_fast(futures, block_ids) => wbCalls = {}
    /\ Len(accepted) >= 2 => pc # "once"

C18_Step ==
    /\ Len(accepted) >= 2 => onceCalls' = onceCalls
    /\ Len(yielded') = Len(yielded) + 1 =>
          \/ Len(block_ids') = Len(block_ids) + 1 /\ Last(block_ids') = Last(yielded').id
          \/ block_ids' = block_ids /\ futures' # <<>> /\ Head(futures').id = Last(yielded').id

C18_OnePlace == [](C18_State) /\ [][C18_Step]_vars

C18_Witness ==
    /\ pc = "idle"
    /\ ret = "err"
    /\ ~close_fast(futures, block_ids)
    /\ wbCalls # {}
    /\ block_ids # <<>>
    /\ Len(futures) = 2
    /\ Len(accepted) = MaxWrites
    /\ ~Last(yielded).ok

\* C19: block identifiers. In every state the identifiers in the Committed
\* Block List are pairwise distinct, the identifiers of the blocks in the pool
\* are pairwise distinct, and none is in both. An identifier is generated only
\* in the step that turns the cached chunk into a block, which had no block
\* before; the step that re-queues a failed block generates none and re-queues
\* it under the identifier it had.
C19_Distinct ==
    /\ \A i, j \in 1..Len(block_ids) : i # j => block_ids[i] # block_ids[j]
    /\ \A i, j \in 1..Len(PoolIds) : i # j => PoolIds[i] # PoolIds[j]
    /\ \A i \in 1..Len(block_ids) : \A j \in 1..Len(PoolIds) : block_ids[i] # PoolIds[j]

C19_FreshStep ==
    nextId' # nextId =>
        /\ nextId' = nextId + 1
        /\ cache # <<>>
        /\ \A i \in 1..Len(futures) : futures[i].src # cache[1].src
        /\ \A k \in 1..Len(yielded') : yielded'[k].src # cache[1].src
        /\ futures' # <<>>
        /\ Last(futures').id = nextId
        /\ Last(futures').src = cache[1].src
        /\ \A i \in 1..Len(cache') : cache'[i].src # cache[1].src

C19_RetryStep ==
    \A i \in 1..Len(futures) :
        FailedYield(futures[i]) =>
            /\ nextId' = nextId
            /\ Head(futures').id = futures[i].id
            /\ Head(futures').src = futures[i].src

C19_Identifiers == [](C19_Distinct) /\ [][C19_FreshStep /\ C19_RetryStep]_vars

C19_Witness ==
    /\ pc = "close"
    /\ fails = MaxFail
    /\ SomeRetry
    /\ Len(block_ids) = 2
    /\ Len(futures) = 2
    /\ nextId = MaxWrites + 1
    /\ Head(futures).id = Last(yielded).id
    /\ ~Last(yielded).ok

\* C20: effective concurrency limit. The limit of the pool is max(1,
\* configured), so at least 1, and 1 for a writer built with 0. Hence a pool
\* without spare capacity is not empty, a write call waits only on a pool
\* from which next() has a result to return, and every step of a waiting
\* write takes exactly one result from the pool, after which the call either
\* returns or waits again on a pool that is not empty.
C20_Limit ==
    /\ concurrent = Max(1, configured)
    /\ concurrent >= 1
    /\ configured = 0 => concurrent = 1
    /\ ~has_remaining(futures, concurrent) => futures # <<>>
    /\ pc = "write" =>
          /\ futures # <<>>
          /\ ~next_none(futures)
          /\ ~has_remaining(futures, concurrent)

C20_LoopStep ==
    (pc = "write" /\ <<pc, block_ids, cache, accepted, ret>>' # <<pc, block_ids, cache, accepted, ret>>) =>
        /\ Len(yielded') = Len(yielded) + 1
        /\ pc' \in {"idle", "write"}
        /\ pc' = "idle" => ret' \in {"ok", "err"}
        /\ pc' = "write" => (Len(block_ids') = Len(block_ids) + 1 /\ futures' # <<>>)

C20_EffectiveLimit == [](C20_Limit) /\ [][C20_LoopStep]_vars

C20_Witness ==
    /\ configured = 0
    /\ concurrent = 1
    /\ pc = "idle"
    /\ ret = "ok"
    /\ pre.call = "write"
    /\ ~pre.room
    /\ Len(pre.pool) = 1
    /\ Len(block_ids) = 2
    /\ Len(futures) = 1
    /\ Len(accepted) = MaxWrites

====
